---- MODULE Spec2Model ----
(***************************************************************************)
(* Model of src/gui.py: the Chat-Tinker message history.                   *)
(*                                                                         *)
(* A MessageEntry object is a record of the fields its handlers read and   *)
(* write.  Objects are identified by their position in objs (Python object *)
(* identity); msg_hist is msg_hist.controls, the list of the objects shown.*)
(* An object removed from msg_hist still exists, so its handlers can still *)
(* be called.  update() and focus() re-render and move the focus: they     *)
(* change none of the fields modelled here.                                *)
(***************************************************************************)
EXTENDS Integers, Sequences, FiniteSets, TLC

\* Bound on the number of user events (handler calls and typing).
MaxOps == 6

\* Texts a user types; those of Blank are empty or whitespace only.
Blank == {"", " "}
Texts == Blank \cup {"hello", "foo"}

VARIABLES
    objs,       \* every MessageEntry constructed so far, by identity
    msg_hist,   \* msg_hist.controls: identities, in display order
    input_box,  \* input_box.value
    raised,     \* exception raised by the last handler call, "none" if none
    lastCall,   \* the last event: handler, target object, text its field held
    nOps,       \* number of events so far
    nSends,     \* number of on_send calls so far
    nDeletes    \* number of on_delete calls that removed their entry

vars == <<objs, msg_hist, input_box, raised, lastCall, nOps, nSends, nDeletes>>

----------------------------------------------------------------------------
\* An entry constructed with the editing controls shown.
MessageEntry_StartsEditing(author, message) ==
    [author |-> author,
     saved_content |-> message,
     text_box_value |-> message,
     text_box_disabled |-> FALSE,
     edit_visible |-> FALSE,
     save_visible |-> TRUE,
     cancel_visible |-> TRUE,
     delete_visible |-> FALSE]

\* MessageEntry.__init__: the fields of a new entry.
MessageEntry(author, message) ==
    [author |-> author,
     saved_content |-> message,
     text_box_value |-> message,
     text_box_disabled |-> TRUE,
     edit_visible |-> TRUE,
     save_visible |-> FALSE,
     cancel_visible |-> FALSE,
     delete_visible |-> TRUE]

\* on_edit that reloads the text box from the saved content.
EditFields_ReloadText(m) ==
    [m EXCEPT !.text_box_value = m.saved_content,
              !.edit_visible = FALSE,
              !.save_visible = TRUE,
              !.cancel_visible = TRUE,
              !.delete_visible = FALSE,
              !.text_box_disabled = FALSE]

\* on_edit that forgets to hide the Delete button.
EditFields_DeleteShown(m) ==
    [m EXCEPT !.edit_visible = FALSE,
              !.save_visible = TRUE,
              !.cancel_visible = TRUE,
              !.text_box_disabled = FALSE]

\* Field writes of MessageEntry.on_edit.
EditFields(m) ==
    [m EXCEPT !.edit_visible = FALSE,
              !.save_visible = TRUE,
              !.cancel_visible = TRUE,
              !.delete_visible = FALSE,
              !.text_box_disabled = FALSE]

\* on_save that reverts the controls without committing the text.
SaveFields_NoCommit(m) ==
    [m EXCEPT !.edit_visible = TRUE,
              !.save_visible = FALSE,
              !.cancel_visible = FALSE,
              !.delete_visible = TRUE,
              !.text_box_disabled = TRUE]

\* Field writes of MessageEntry.on_save.
SaveFields(m) ==
    [m EXCEPT !.saved_content = m.text_box_value,
              !.edit_visible = TRUE,
              !.save_visible = FALSE,
              !.cancel_visible = FALSE,
              !.delete_visible = TRUE,
              !.text_box_disabled = TRUE]

\* on_cancel that copies the wrong way: the displayed text into the saved
\* content.
CancelFields_Commits(m) ==
    [m EXCEPT !.saved_content = m.text_box_value,
              !.edit_visible = TRUE,
              !.save_visible = FALSE,
              !.cancel_visible = FALSE,
              !.delete_visible = TRUE,
              !.text_box_disabled = TRUE]

\* on_cancel that reverts the controls without restoring the text.
CancelFields_NoRestore(m) ==
    [m EXCEPT !.edit_visible = TRUE,
              !.save_visible = FALSE,
              !.cancel_visible = FALSE,
              !.delete_visible = TRUE,
              !.text_box_disabled = TRUE]

\* Field writes of MessageEntry.on_cancel.
CancelFields(m) ==
    [m EXCEPT !.text_box_value = m.saved_content,
              !.edit_visible = TRUE,
              !.save_visible = FALSE,
              !.cancel_visible = FALSE,
              !.delete_visible = TRUE,
              !.text_box_disabled = TRUE]

\* x in a Python list.
Contains(controls, x) == \E i \in 1..Len(controls) : controls[i] = x

\* Index of the first element equal to x (list.remove scans from the front).
FirstIndex(controls, x) ==
    CHOOSE i \in 1..Len(controls) :
        /\ controls[i] = x
        /\ \A j \in 1..(i - 1) : controls[j] # x

\* A removal that compares entries by their fields instead of by identity:
\* it drops the first entry that looks like x.
ListRemove_ByFields(controls, x) ==
    LET k == CHOOSE i \in 1..Len(controls) :
                 /\ objs[controls[i]] = objs[x]
                 /\ \A j \in 1..(i - 1) : objs[controls[j]] # objs[x]
    IN  SubSeq(controls, 1, k - 1) \o SubSeq(controls, k + 1, Len(controls))

\* A removal that pops the last element instead of x.
ListRemove_Pop(controls, x) == SubSeq(controls, 1, Len(controls) - 1)

\* list.remove(x) when x is present: drop the first element equal to x.
ListRemove(controls, x) ==
    LET k == FirstIndex(controls, x)
    IN  SubSeq(controls, 1, k - 1) \o SubSeq(controls, k + 1, Len(controls))

\* A conversion that strips surrounding whitespace.
str_Strip(v) == IF v \in Blank THEN "" ELSE v

\* str() of the input field's value, which is a Python str.
str(v) == v

\* The seeded entries in the opposite order.
SeedEntries_Swapped ==
    << MessageEntry("AI", "Type 'exit' to exit the application."),
       MessageEntry("Setting", "Welcome to the Chat-Tinker GUI!") >>

\* The entries STMainPage.__init__ appends, in order.
SeedEntries ==
    << MessageEntry("Setting", "Welcome to the Chat-Tinker GUI!"),
       MessageEntry("AI", "Type 'exit' to exit the application.") >>

\* on_send that appends the placeholder before the user's entry.
SendEntries_PlaceholderFirst(field) ==
    << MessageEntry("AI", "Processing..."),
       MessageEntry("You", str(field)) >>

\* The objects on_send constructs, in order; the user's entry reads the field.
SendEntries(field) ==
    << MessageEntry("You", str(field)),
       MessageEntry("AI", "Processing...") >>

\* on_send that leaves the input field as it was.
SendClear_Keep(field) == field

\* input_box.value after on_send.
SendClear(field) == ""

----------------------------------------------------------------------------
Call(op, self, arg) == [op |-> op, self |-> self, arg |-> arg]

\* STMainPage.__init__
Init ==
    /\ objs = SeedEntries
    /\ msg_hist = <<1, 2>>
    /\ input_box = ""
    /\ raised = "none"
    /\ lastCall = Call("init", 0, "")
    /\ nOps = 0
    /\ nSends = 0
    /\ nDeletes = 0

\* The user types t into the input field.
type_input(t) ==
    /\ nOps < MaxOps
    /\ input_box' = t
    /\ lastCall' = Call("type_input", 0, t)
    /\ raised' = "none"
    /\ nOps' = nOps + 1
    /\ UNCHANGED <<objs, msg_hist, nSends, nDeletes>>

\* The user types t into the text box of a displayed entry; a disabled
\* text box takes no input.
type_entry(self, t) ==
    /\ nOps < MaxOps
    /\ Contains(msg_hist, self)
    /\ ~objs[self].text_box_disabled
    /\ objs' = [objs EXCEPT ![self].text_box_value = t]
    /\ lastCall' = Call("type_entry", self, t)
    /\ raised' = "none"
    /\ nOps' = nOps + 1
    /\ UNCHANGED <<msg_hist, input_box, nSends, nDeletes>>

\* on_send that also puts every existing entry back to its saved content.
on_send_ResetsEntries ==
    /\ nOps < MaxOps
    /\ LET new == SendEntries(input_box)
           n == Len(objs)
       IN  /\ objs' = [e \in 1..n |-> CancelFields(objs[e])] \o new
           /\ msg_hist' = Append(Append(msg_hist, n + 1), n + 2)
    /\ input_box' = SendClear(input_box)
    /\ lastCall' = Call("on_send", 0, input_box)
    /\ raised' = "none"
    /\ nOps' = nOps + 1
    /\ nSends' = nSends + 1
    /\ UNCHANGED nDeletes

\* on_send that inserts the two new entries at the front of the list.
on_send_Prepend ==
    /\ nOps < MaxOps
    /\ LET new == SendEntries(input_box)
           n == Len(objs)
       IN  /\ objs' = objs \o new
           /\ msg_hist' = <<n + 1, n + 2>> \o msg_hist
    /\ input_box' = SendClear(input_box)
    /\ lastCall' = Call("on_send", 0, input_box)
    /\ raised' = "none"
    /\ nOps' = nOps + 1
    /\ nSends' = nSends + 1
    /\ UNCHANGED nDeletes

\* STMainPage.on_send
on_send ==
    /\ nOps < MaxOps
    /\ LET new == SendEntries(input_box)
           n == Len(objs)
       IN  /\ objs' = objs \o new
           /\ msg_hist' = Append(Append(msg_hist, n + 1), n + 2)
    /\ input_box' = SendClear(input_box)
    /\ lastCall' = Call("on_send", 0, input_box)
    /\ raised' = "none"
    /\ nOps' = nOps + 1
    /\ nSends' = nSends + 1
    /\ UNCHANGED nDeletes

\* MessageEntry.on_edit
on_edit(self) ==
    /\ nOps < MaxOps
    /\ objs' = [objs EXCEPT ![self] = EditFields(objs[self])]
    /\ lastCall' = Call("on_edit", self, objs[self].text_box_value)
    /\ raised' = "none"
    /\ nOps' = nOps + 1
    /\ UNCHANGED <<msg_hist, input_box, nSends, nDeletes>>

\* MessageEntry.on_save
on_save(self) ==
    /\ nOps < MaxOps
    /\ objs' = [objs EXCEPT ![self] = SaveFields(objs[self])]
    /\ lastCall' = Call("on_save", self, objs[self].text_box_value)
    /\ raised' = "none"
    /\ nOps' = nOps + 1
    /\ UNCHANGED <<msg_hist, input_box, nSends, nDeletes>>

\* MessageEntry.on_cancel
on_cancel(self) ==
    /\ nOps < MaxOps
    /\ objs' = [objs EXCEPT ![self] = CancelFields(objs[self])]
    /\ lastCall' = Call("on_cancel", self, objs[self].text_box_value)
    /\ raised' = "none"
    /\ nOps' = nOps + 1
    /\ UNCHANGED <<msg_hist, input_box, nSends, nDeletes>>

\* on_delete that puts an entry it does not find back at the end of the
\* list instead of failing.
on_delete_Toggle(self) ==
    /\ nOps < MaxOps
    /\ IF Contains(msg_hist, self)
       THEN /\ msg_hist' = ListRemove(msg_hist, self)
            /\ nDeletes' = nDeletes + 1
       ELSE /\ msg_hist' = Append(msg_hist, self)
            /\ nDeletes' = nDeletes
    /\ raised' = "none"
    /\ lastCall' = Call("on_delete", self, objs[self].text_box_value)
    /\ nOps' = nOps + 1
    /\ UNCHANGED <<objs, input_box, nSends>>

\* on_delete that ignores the call while the Delete button is hidden.
on_delete_WhenShown(self) ==
    /\ nOps < MaxOps
    /\ IF Contains(msg_hist, self)
       THEN /\ msg_hist' = IF objs[self].delete_visible
                           THEN ListRemove(msg_hist, self)
                           ELSE msg_hist
            /\ nDeletes' = IF objs[self].delete_visible
                           THEN nDeletes + 1
                           ELSE nDeletes
            /\ raised' = "none"
       ELSE /\ msg_hist' = msg_hist
            /\ nDeletes' = nDeletes
            /\ raised' = "ValueError"
    /\ lastCall' = Call("on_delete", self, objs[self].text_box_value)
    /\ nOps' = nOps + 1
    /\ UNCHANGED <<objs, input_box, nSends>>

\* MessageEntry.on_delete: list.remove raises ValueError when the entry is
\* not in the list, and the handler stops there.
on_delete(self) ==
    /\ nOps < MaxOps
    /\ IF Contains(msg_hist, self)
       THEN /\ msg_hist' = ListRemove(msg_hist, self)
            /\ nDeletes' = nDeletes + 1
            /\ raised' = "none"
       ELSE /\ msg_hist' = msg_hist
            /\ nDeletes' = nDeletes
            /\ raised' = "ValueError"
    /\ lastCall' = Call("on_delete", self, objs[self].text_box_value)
    /\ nOps' = nOps + 1
    /\ UNCHANGED <<objs, input_box, nSends>>

Next ==
    \/ \E t \in Texts : type_input(t)
    \/ \E self \in 1..Len(objs) : \E t \in Texts : type_entry(self, t)
    \/ on_send
    \/ \E self \in 1..Len(objs) : on_edit(self)
    \/ \E self \in 1..Len(objs) : on_save(self)
    \/ \E self \in 1..Len(objs) : on_cancel(self)
    \/ \E self \in 1..Len(objs) : on_delete(self)

Spec == Init /\ [][Next]_vars

----------------------------------------------------------------------------
\* Control shapes of an entry.
Viewing(m) ==
    /\ m.edit_visible /\ m.delete_visible
    /\ ~m.save_visible /\ ~m.cancel_visible
    /\ m.text_box_disabled

Editing(m) ==
    /\ m.save_visible /\ m.cancel_visible
    /\ ~m.edit_visible /\ ~m.delete_visible
    /\ ~m.text_box_disabled

\* Every event increments nOps, so the post-state's lastCall names the
\* event of a non-stuttering step.
Step(op) == nOps' # nOps /\ lastCall'.op = op
StepOn(op, e) == Step(op) /\ lastCall'.self = e

Objects == 1..Len(objs)

\* C1: one send appends exactly two entries at the end of the message list,
\* first author "You" with the field's text, then author "AI" with
\* "Processing..."; the entries already in the list stay as an unchanged
\* prefix.
C1_SendAppendsTwo ==
    [][Step("on_send") =>
        LET n == Len(msg_hist)
        IN  /\ Len(msg_hist') = n + 2
            /\ SubSeq(msg_hist', 1, n) = msg_hist
            /\ \A i \in 1..n : objs'[msg_hist[i]] = objs[msg_hist[i]]
            /\ objs'[msg_hist'[n + 1]].author = "You"
            /\ objs'[msg_hist'[n + 1]].saved_content = input_box
            /\ objs'[msg_hist'[n + 1]].text_box_value = input_box
            /\ objs'[msg_hist'[n + 2]].author = "AI"
            /\ objs'[msg_hist'[n + 2]].saved_content = "Processing..."
            /\ objs'[msg_hist'[n + 2]].text_box_value = "Processing..."
            /\ msg_hist'[n + 1] # msg_hist'[n + 2]
            /\ ~Contains(msg_hist, msg_hist'[n + 1])
            /\ ~Contains(msg_hist, msg_hist'[n + 2])]_vars

C1_Witness ==
    /\ lastCall = Call("on_send", 0, "hello")
    /\ Len(msg_hist) = 4
    /\ objs[msg_hist[3]].saved_content = "hello"
    /\ objs[msg_hist[4]].saved_content = "Processing..."

\* C2: after any send the input field is the empty string, and the "You"
\* entry created by that send holds the text the field had before it was
\* cleared.
C2_SendClearsField ==
    [][Step("on_send") =>
        /\ input_box' = ""
        /\ Len(objs') = Len(objs) + 2
        /\ objs'[Len(objs) + 1].author = "You"
        /\ objs'[Len(objs) + 1].saved_content = input_box
        /\ objs'[Len(objs) + 1].text_box_value = input_box]_vars

C2_Witness ==
    /\ lastCall = Call("on_send", 0, "foo")
    /\ input_box = ""
    /\ objs[Len(objs) - 1].author = "You"
    /\ objs[Len(objs) - 1].saved_content = "foo"

\* C3: edit() and changes of the displayed text leave the saved content s
\* as it is, and cancel() then sets the displayed text back to s, keeps the
\* saved content s and puts the entry in Viewing.
C3_CancelRestores ==
    [][\A e \in Objects :
        /\ (StepOn("on_edit", e) \/ StepOn("type_entry", e)) =>
              objs'[e].saved_content = objs[e].saved_content
        /\ StepOn("on_cancel", e) =>
              /\ objs'[e].text_box_value = objs[e].saved_content
              /\ objs'[e].saved_content = objs[e].saved_content
              /\ Viewing(objs'[e])]_vars

C3_Witness ==
    /\ lastCall.op = "on_cancel"
    /\ lastCall.arg # objs[lastCall.self].saved_content
    /\ objs[lastCall.self].text_box_value = objs[lastCall.self].saved_content
    /\ Viewing(objs[lastCall.self])

\* C4: save() commits the displayed text as the saved content; nothing but
\* save() on the entry changes its saved content afterwards, and cancel()
\* restores that saved content, so a cancel after a save restores the saved
\* text and not the text the entry was created with.
C4_SaveCommits ==
    [][\A e \in Objects :
        /\ StepOn("on_save", e) =>
              /\ objs'[e].saved_content = objs[e].text_box_value
              /\ objs'[e].text_box_value = objs[e].text_box_value
              /\ Viewing(objs'[e])
        /\ ~StepOn("on_save", e) =>
              objs'[e].saved_content = objs[e].saved_content
        /\ StepOn("on_cancel", e) =>
              objs'[e].text_box_value = objs[e].saved_content]_vars

C4_Witness ==
    /\ lastCall.op = "on_cancel"
    /\ lastCall.self = 1
    /\ lastCall.arg = "hello"
    /\ objs[1].saved_content = "foo"
    /\ objs[1].text_box_value = "foo"
    /\ SeedEntries[1].saved_content # "foo"

\* C5: delete() on an entry that is in the list removes it, shortens the
\* list by exactly 1 and keeps the other entries in their relative order,
\* also when the list becomes empty.
C5_DeleteRemovesOne ==
    [][\A e \in Objects :
        (StepOn("on_delete", e) /\ Contains(msg_hist, e)) =>
            /\ ~Contains(msg_hist', e)
            /\ Len(msg_hist') = Len(msg_hist) - 1
            /\ msg_hist' = SelectSeq(msg_hist, LAMBDA x : x # e)]_vars

C5_Witness ==
    /\ lastCall.op = "on_delete"
    /\ raised = "none"
    /\ lastCall.self = 2
    /\ msg_hist = <<1, 3, 4>>

\* C5, the case of the last remaining entry.
C5_EmptyReached ==
    /\ lastCall.op = "on_delete"
    /\ raised = "none"
    /\ msg_hist = << >>

\* C6: before any user action the list holds exactly two entries, "Setting"
\* with the welcome text and then "AI" with the exit hint, both in Viewing.
C6_InitialList ==
    lastCall.op = "init" =>
        /\ Len(msg_hist) = 2
        /\ msg_hist[1] # msg_hist[2]
        /\ objs[msg_hist[1]].author = "Setting"
        /\ objs[msg_hist[1]].saved_content = "Welcome to the Chat-Tinker GUI!"
        /\ objs[msg_hist[1]].text_box_value = "Welcome to the Chat-Tinker GUI!"
        /\ objs[msg_hist[2]].author = "AI"
        /\ objs[msg_hist[2]].saved_content
              = "Type 'exit' to exit the application."
        /\ objs[msg_hist[2]].text_box_value
              = "Type 'exit' to exit the application."
        /\ Viewing(objs[msg_hist[1]])
        /\ Viewing(objs[msg_hist[2]])

C6_Witness ==
    /\ lastCall.op = "init"
    /\ nOps = 0
    /\ Len(msg_hist) = 2

\* C7: send does not validate its input: with an empty or whitespace-only
\* field, the never-typed-in initial field included, it appends the "You"
\* entry with exactly the field's text and then the "AI" placeholder.
C7_BlankIsSent ==
    [][(Step("on_send") /\ input_box \in Blank) =>
        LET n == Len(msg_hist)
        IN  /\ raised' = "none"
            /\ Len(msg_hist') = n + 2
            /\ objs'[msg_hist'[n + 1]].author = "You"
            /\ objs'[msg_hist'[n + 1]].saved_content = input_box
            /\ objs'[msg_hist'[n + 2]].author = "AI"
            /\ objs'[msg_hist'[n + 2]].saved_content = "Processing..."]_vars

\* Sent once from the initial field, then once with a single space.
C7_Witness ==
    /\ lastCall = Call("on_send", 0, " ")
    /\ nOps = 3
    /\ msg_hist = <<1, 2, 3, 4, 5, 6>>
    /\ objs[3].saved_content = ""
    /\ objs[5].saved_content = " "

\* C8: delete() on an entry of the list removes it without an error, in
\* Viewing and in Editing alike.
C8_DeleteFromAnyState ==
    [][\A e \in Objects :
        (/\ StepOn("on_delete", e)
         /\ Contains(msg_hist, e)
         /\ (Viewing(objs[e]) \/ Editing(objs[e]))) =>
            /\ ~Contains(msg_hist', e)
            /\ raised' = "none"]_vars

C8_Witness ==
    /\ lastCall.op = "on_delete"
    /\ raised = "none"
    /\ Editing(objs[lastCall.self])
    /\ ~Contains(msg_hist, lastCall.self)

\* C9: no sequence of handler calls, a handler called on an already deleted
\* entry included, raises an error.
C9_NoError == raised = "none"

\* C10: every entry is in one of the two consistent control shapes, Editing
\* or Viewing, never in a mixed one.
C10_TwoShapes ==
    \A e \in Objects :
        /\ Editing(objs[e]) \/ Viewing(objs[e])
        /\ ~(Editing(objs[e]) /\ Viewing(objs[e]))

C10_Witness ==
    /\ lastCall.op \in {"on_save", "on_cancel"}
    /\ Contains(msg_hist, lastCall.self)
    /\ Viewing(objs[lastCall.self])
    /\ \E e \in Objects : Contains(msg_hist, e) /\ Editing(objs[e])
    /\ Len(objs) > 2

\* C11: every entry starts in Viewing, the seeded ones and those created
\* by send; edit() puts its entry in Editing, save() and cancel() put it in
\* Viewing, and no other event changes the state of an entry.
C11_StateMachine ==
    /\ [](lastCall.op = "init" => \A e \in Objects : Viewing(objs[e]))
    /\ [][LET op == lastCall'.op
              self == lastCall'.self
              moves == op \in {"on_edit", "on_save", "on_cancel"}
          IN  /\ \A e \in (Len(objs) + 1)..Len(objs') : Viewing(objs'[e])
              /\ op = "on_edit" => Editing(objs'[self])
              /\ op \in {"on_save", "on_cancel"} => Viewing(objs'[self])
              /\ \A e \in Objects :
                    (moves /\ e = self) \/ objs'[e] = objs[e] \/
                        /\ Editing(objs'[e]) = Editing(objs[e])
                        /\ Viewing(objs'[e]) = Viewing(objs[e])]_vars

\* An entry created by send went to Editing and back; now a seeded entry
\* is put in Editing.
C11_Witness ==
    /\ lastCall.op = "on_edit"
    /\ lastCall.self = 1
    /\ Editing(objs[1])
    /\ Len(objs) = 4
    /\ Viewing(objs[3])
    /\ objs[3].saved_content = "foo"
    /\ Viewing(objs[4])

\* The ids of a list increase from front to back: ids are given in the
\* order of construction.
InCreationOrder(controls) ==
    \A i, j \in 1..Len(controls) : i < j => controls[i] < controls[j]

\* C12: only send and delete change the message list, send by appending at
\* the end and delete by removing; edit(), save() and cancel() leave it as
\* it is, and the surviving entries are always in the order of creation.
C12_ListOnlyAppendRemove ==
    /\ [] InCreationOrder(msg_hist)
    /\ [][/\ (Step("on_edit") \/ Step("on_save") \/ Step("on_cancel")
              \/ Step("type_entry") \/ Step("type_input")) =>
                 msg_hist' = msg_hist
          /\ Step("on_send") =>
                 SubSeq(msg_hist', 1, Len(msg_hist)) = msg_hist
          /\ Step("on_delete") =>
                 \/ msg_hist' = msg_hist
                 \/ msg_hist' = SelectSeq(msg_hist,
                                          LAMBDA x : x # lastCall'.self)]_vars

\* Entries were created by send and one of the middle was deleted, then an
\* entry was edited and saved.
C12_Witness ==
    /\ lastCall.op = "on_save"
    /\ msg_hist = <<1, 3, 4>>
    /\ objs[lastCall.self].saved_content = "foo"

\* C13: at most one entry of the message list is in Editing.
C13_AtMostOneEditing ==
    \A e, f \in Objects :
        (/\ Contains(msg_hist, e) /\ Contains(msg_hist, f)
         /\ Editing(objs[e]) /\ Editing(objs[f])) => e = f

\* C14: edit() on an entry that is already in Editing changes nothing: the
\* entry stays in Editing with the same saved content and the same
\* in-progress text, and the list and the input field are as before.
C14_EditTwiceNoOp ==
    [][(Step("on_edit") /\ Editing(objs[lastCall'.self])) =>
        /\ Editing(objs'[lastCall'.self])
        /\ objs'[lastCall'.self].saved_content
              = objs[lastCall'.self].saved_content
        /\ objs'[lastCall'.self].text_box_value
              = objs[lastCall'.self].text_box_value
        /\ objs' = objs
        /\ msg_hist' = msg_hist
        /\ input_box' = input_box]_vars

\* The second edit() came while typed text was not yet saved: only an entry
\* in Editing shows a text that differs from its saved content.
C14_Witness ==
    /\ lastCall.op = "on_edit"
    /\ Editing(objs[lastCall.self])
    /\ objs[lastCall.self].text_box_value = "foo"
    /\ objs[lastCall.self].saved_content # "foo"
    /\ lastCall.arg = "foo"

\* C15: an entry in Viewing displays exactly its saved content; the text
\* box and the saved content differ only while the entry is in Editing.
C15_ViewingShowsSaved ==
    \A e \in Objects :
        /\ Viewing(objs[e]) =>
              objs[e].text_box_value = objs[e].saved_content
        /\ objs[e].text_box_value # objs[e].saved_content =>
              Editing(objs[e])

\* One entry was saved with a new text and shows it in Viewing, another is
\* in Editing with a text that is not saved.
C15_Witness ==
    /\ Viewing(objs[1])
    /\ objs[1].saved_content = "foo"
    /\ objs[1].text_box_value = "foo"
    /\ Editing(objs[2])
    /\ objs[2].text_box_value = "hello"
    /\ objs[2].saved_content = SeedEntries[2].saved_content

\* C16: the saved content of an entry changes only by save() on that
\* entry, and the author of an entry never changes.
C16_SavedOnlyBySave ==
    [][\A e \in Objects :
        /\ objs'[e].author = objs[e].author
        /\ objs'[e].saved_content # objs[e].saved_content =>
              /\ StepOn("on_save", e)
              /\ objs'[e].saved_content = objs[e].text_box_value]_vars

\* Entry 1 was saved with a new text, later edited again and cancelled: it
\* keeps the saved text and its author, and entry 2 is as it was created.
C16_Witness ==
    /\ lastCall.op = "on_cancel"
    /\ lastCall.self = 1
    /\ lastCall.arg = "hello"
    /\ objs[1].saved_content = "foo"
    /\ objs[1].author = "Setting"
    /\ objs[2].saved_content = SeedEntries[2].saved_content
    /\ objs[2].author = "AI"

\* Entries of the list other than e that have the author and content of e.
LookAlikes(controls, e) ==
    {i \in 1..Len(controls) :
        /\ controls[i] # e
        /\ objs[controls[i]].author = objs[e].author
        /\ objs[controls[i]].saved_content = objs[e].saved_content
        /\ objs[controls[i]].text_box_value = objs[e].text_box_value}

\* C17: delete() on a listed entry that has look-alikes in the list removes
\* the entry at the position of the call; every look-alike, also an earlier
\* one, stays at its place relative to the others.
C17_DeleteExactEntry ==
    [][(/\ Step("on_delete")
        /\ Contains(msg_hist, lastCall'.self)
        /\ LookAlikes(msg_hist, lastCall'.self) # {}) =>
            LET e == lastCall'.self
                k == FirstIndex(msg_hist, e)
            IN  /\ msg_hist' = SubSeq(msg_hist, 1, k - 1)
                                  \o SubSeq(msg_hist, k + 1, Len(msg_hist))
                /\ ~Contains(msg_hist', e)
                /\ \A i \in LookAlikes(msg_hist, e) :
                      Contains(msg_hist', msg_hist[i])]_vars

\* Two sends left two "AI" / "Processing..." placeholders, entries 4 and 6;
\* delete() on the later one removed it and kept the earlier one.
C17_Witness ==
    /\ lastCall.op = "on_delete"
    /\ lastCall.self = 6
    /\ raised = "none"
    /\ msg_hist = <<1, 2, 3, 4, 5>>
    /\ objs[4] = objs[6]
    /\ objs[6].saved_content = "Processing..."

\* C18: send, and edit/save/cancel/delete on one entry, leave the state,
\* the saved content and the in-progress text of every other entry as they
\* were; an unsaved edit survives a send and the deletion of another entry.
C18_OthersUntouched ==
    [][(\/ Step("on_send") \/ Step("on_edit") \/ Step("on_save")
        \/ Step("on_cancel") \/ Step("on_delete")) =>
        \A e \in Objects :
            e # lastCall'.self =>
                /\ objs'[e] = objs[e]
                /\ Editing(objs'[e]) = Editing(objs[e])
                /\ objs'[e].saved_content = objs[e].saved_content
                /\ objs'[e].text_box_value = objs[e].text_box_value]_vars

\* Entry 1 is in Editing with unsaved text; a send and then the deletion of
\* entry 2 have happened since it was typed.
C18_Witness ==
    /\ lastCall.op = "on_delete"
    /\ lastCall.self = 2
    /\ raised = "none"
    /\ msg_hist = <<1, 3, 4>>
    /\ Editing(objs[1])
    /\ objs[1].text_box_value = "foo"
    /\ objs[1].saved_content = SeedEntries[1].saved_content

\* C19: the length of the message list is 2 + 2 * (number of sends) -
\* (number of successful deletes), and an entry that is not in the list any
\* more never comes back into it.
C19_LengthAndNoReturn ==
    /\ [](Len(msg_hist) = 2 + 2 * nSends - nDeletes)
    /\ [][\A e \in Objects :
            ~Contains(msg_hist, e) => ~Contains(msg_hist', e)]_vars

\* Two sends, one delete that removed its entry and one that failed on the
\* entry already deleted: 2 + 2 * 2 - 1 = 5 entries.
C19_Witness ==
    /\ nSends = 2
    /\ nDeletes = 1
    /\ Len(msg_hist) = 5
    /\ lastCall.op = "on_delete"
    /\ raised = "ValueError"
    /\ ~Contains(msg_hist, lastCall.self)

====
